---- MODULE Spec2Model ----
(***************************************************************************)
(* A model of GPS_TelegramBot: the route decomposition of src/guide.py     *)
(* (Guide.get_directions and its helpers) and the per-user guidance state  *)
(* machine of src/main_bot.py (the /start, /help, /where, /cancel and /go  *)
(* handlers and the location handler process_user_location).               *)
(*                                                                         *)
(* Geometry.  A coordinate pair (latitude, longitude) is modelled as a     *)
(* point of one street axis: an integer number of metres east of an        *)
(* origin, in steps of 5 m.  haversine(p, q, unit='m') is then |p - q|.    *)
(* The nodes of the street graph lie on the same axis, in an order that    *)
(* doubles back (node 2 is west of node 1, node 3 east of both), so that   *)
(* the penultimate node of a path can be nearer to or farther from the     *)
(* destination than the last one.                                          *)
(*                                                                         *)
(* Python's None is the empty tuple; a present optional value v is <<v>>.  *)
(* An entry of the list `route` of get_directions (a coordinate pair, an   *)
(* OpenStreetMap id or None) is a record [kind, val].                      *)
(***************************************************************************)
EXTENDS Integers, Sequences, FiniteSets, TLC

\* The largest coordinate of the model is 5 * MaxCoord metres.
MaxCoord == 6

\* Python's None and a present value.
None == << >>

Some(v) == <<v>>

\* A (latitude, longitude) tuple, an OSM id (a Python int), and None, as the
\* elements of `route` and the src / mid / dst values of a leg.
Coordinates(c) == [kind |-> "coords", val |-> c]

OSMid(n) == [kind |-> "osmid", val |-> n]

NoPoint == [kind |-> "none", val |-> 0]

\* isinstance(x, OSMid)
IsOSMid(x) == x.kind = "osmid"

\* The coordinate pairs a user can report and a place name can geocode to.
Coords == {Coordinates(5 * c) : c \in 0..MaxCoord}

Abs(x) == IF x < 0 THEN -x ELSE x

\* haversine(p, q, unit='m'): the great-circle distance in metres.  Without
\* unit= the library returns kilometres, the same number over 1000, so a
\* comparison of two distances is the comparison of their metres.
haversine(p, q) == Abs(p.val - q.val)

(***************************************************************************)
(* The street graph (Graph.graph, a networkx MultiDiGraph).                *)
(***************************************************************************)
GraphNodes == {1, 2, 3}

\* graph.nodes[n]['y'], graph.nodes[n]['x']
NodeCoords == (1 :> 15) @@ (2 :> 0) @@ (3 :> 30)

\* Two-way streets 1 - 2 and 2 - 3.
GraphEdges == {<<1, 2>>, <<2, 1>>, <<2, 3>>, <<3, 2>>}

\* graph[u][v][0]: the attributes of the edge; 'name' and 'length' are optional.
EdgeAttrs(u, v) ==
    IF {u, v} = {1, 2}
    THEN [name |-> Some("Carrer de Mallorca"), length |-> Some(17)]
    ELSE [name |-> None, length |-> Some(33)]

\* Guide._get_coordinates
get_coordinates(node) == Coordinates(NodeCoords[node])

\* The distance from a point to the street segment between two nodes.
SegmentDistance(p, e) ==
    LET a == NodeCoords[e[1]]
        b == NodeCoords[e[2]]
        lo == IF a < b THEN a ELSE b
        hi == IF a < b THEN b ELSE a
    IN  IF p.val < lo THEN lo - p.val
        ELSE IF p.val > hi THEN p.val - hi ELSE 0

\* ox.distance.nearest_edges: an edge (u, v) of the graph at the least distance
\* from the point; which one of several is the library's choice.
nearest_edges(coords) ==
    {e \in GraphEdges :
        \A f \in GraphEdges : SegmentDistance(coords, e) <= SegmentDistance(coords, f)}

\* _get_nearest_node that returns u only when it is strictly nearer.
get_nearest_node_ties_to_v(coords, edge) ==
    LET u == edge[1]
        v == edge[2]
        du == haversine(coords, get_coordinates(u))
        dv == haversine(coords, get_coordinates(v))
    IN  IF du < dv THEN u ELSE v

\* Guide._get_nearest_node, after the nearest edge (u, v) is known.
get_nearest_node(coords, edge) ==
    LET u == edge[1]
        v == edge[2]
        du == haversine(coords, get_coordinates(u))
        dv == haversine(coords, get_coordinates(v))
        min == IF du <= dv THEN du ELSE dv
    IN  IF du = min THEN u ELSE v

\* The sequences of distinct nodes joined by edges, from source to target.
RECURSIVE PathsFrom(_, _, _)
PathsFrom(path, target, n) ==
    LET last == path[Len(path)]
        here == IF last = target THEN {path} ELSE {}
        more == {Append(path, m) : m \in {m \in GraphNodes :
                    /\ <<last, m>> \in GraphEdges
                    /\ \A i \in 1..Len(path) : path[i] # m}}
    IN  IF n = 0 \/ last = target THEN here
        ELSE UNION {PathsFrom(q, target, n - 1) : q \in more}

\* nx.shortest_path(G, source, target): a path with the fewest edges.
shortest_path(source, target) ==
    LET all == PathsFrom(<<source>>, target, Cardinality(GraphNodes))
    IN  {p \in all : \A q \in all : Len(p) <= Len(q)}

\* ox.bearing.calculate_bearing: the compass bearing from one point to another,
\* in [0, 360); on the street axis it is east (90) or west (270).
calculate_bearing(p, q) ==
    IF q.val > p.val THEN 90 ELSE IF q.val < p.val THEN 270 ELSE 0

\* The difference of the two bearings as it is, without lines 272-274.
normalize_angle_raw(angle1, angle2) == angle2 - angle1

\* The normalisation with half a turn added or taken away for a whole one.
normalize_angle_half_turn(angle1, angle2) ==
    LET angle == angle2 - angle1
    IN  IF Abs(angle) < 180 THEN angle
        ELSE IF angle < 0 THEN angle + 180 ELSE angle - 180

\* Guide._compute_angle, lines 270-274: the difference of the two bearings,
\* brought back between -180 and 180.
normalize_angle(angle1, angle2) ==
    LET angle == angle2 - angle1
    IN  IF Abs(angle) < 180 THEN angle
        ELSE IF angle < 0 THEN angle + 360 ELSE angle - 360

\* Guide._compute_angle
compute_angle(src_node, mid_node, dst_node) ==
    LET src_coords == get_coordinates(src_node)
        mid_coords == get_coordinates(mid_node)
        dst_coords == get_coordinates(dst_node)
        angle1 == calculate_bearing(src_coords, mid_coords)
        angle2 == calculate_bearing(mid_coords, dst_coords)
    IN  normalize_angle(angle1, angle2)

\* _compute_leg_of_the_route with an angle whenever src is a node, also when
\* dst is the destination point.
compute_leg_angle_to_any_dst(src, mid, dst) ==
    LET leg == [src |-> src, current_name |-> None, length |-> None,
                mid |-> mid, next_name |-> None, dst |-> dst, angle |-> None]
        from == IF IsOSMid(src) THEN get_coordinates(src.val) ELSE src
        to == IF IsOSMid(dst) THEN get_coordinates(dst.val) ELSE dst
    IN  IF dst = NoPoint
        THEN [leg EXCEPT !.src = from]
        ELSE [leg EXCEPT
                !.src = from,
                !.current_name = IF IsOSMid(src)
                                 THEN EdgeAttrs(src.val, mid.val).name ELSE None,
                !.length = IF IsOSMid(src)
                           THEN EdgeAttrs(src.val, mid.val).length ELSE None,
                !.mid = get_coordinates(mid.val),
                !.dst = to,
                !.next_name = IF IsOSMid(dst)
                              THEN EdgeAttrs(mid.val, dst.val).name ELSE None,
                !.angle = IF IsOSMid(src)
                          THEN Some(normalize_angle(
                                   calculate_bearing(from, get_coordinates(mid.val)),
                                   calculate_bearing(get_coordinates(mid.val), to)))
                          ELSE None]

\* _compute_leg_of_the_route with an angle whenever dst is a node, also when
\* src is the source point.
compute_leg_angle_from_any_src(src, mid, dst) ==
    LET leg == [src |-> src, current_name |-> None, length |-> None,
                mid |-> mid, next_name |-> None, dst |-> dst, angle |-> None]
        from == IF IsOSMid(src) THEN get_coordinates(src.val) ELSE src
    IN  IF dst = NoPoint
        THEN [leg EXCEPT !.src = from]
        ELSE [leg EXCEPT
                !.src = from,
                !.current_name = IF IsOSMid(src)
                                 THEN EdgeAttrs(src.val, mid.val).name ELSE None,
                !.length = IF IsOSMid(src)
                           THEN EdgeAttrs(src.val, mid.val).length ELSE None,
                !.mid = get_coordinates(mid.val),
                !.dst = IF IsOSMid(dst) THEN get_coordinates(dst.val) ELSE dst,
                !.next_name = IF IsOSMid(dst)
                              THEN EdgeAttrs(mid.val, dst.val).name ELSE None,
                !.angle = IF IsOSMid(dst)
                          THEN Some(normalize_angle(
                                   calculate_bearing(from, get_coordinates(mid.val)),
                                   calculate_bearing(get_coordinates(mid.val),
                                                     get_coordinates(dst.val))))
                          ELSE None]

\* Guide._compute_leg_of_the_route
compute_leg_of_the_route(src, mid, dst) ==
    LET leg == [src |-> src, current_name |-> None, length |-> None,
                mid |-> mid, next_name |-> None, dst |-> dst, angle |-> None]
    IN  IF dst = NoPoint
        THEN [leg EXCEPT !.src = IF IsOSMid(src) THEN get_coordinates(src.val) ELSE src]
        ELSE [leg EXCEPT
                !.src = IF IsOSMid(src) THEN get_coordinates(src.val) ELSE src,
                !.current_name = IF IsOSMid(src)
                                 THEN EdgeAttrs(src.val, mid.val).name ELSE None,
                !.length = IF IsOSMid(src)
                           THEN EdgeAttrs(src.val, mid.val).length ELSE None,
                !.mid = get_coordinates(mid.val),
                !.dst = IF IsOSMid(dst) THEN get_coordinates(dst.val) ELSE dst,
                !.next_name = IF IsOSMid(dst)
                              THEN EdgeAttrs(mid.val, dst.val).name ELSE None,
                !.angle = IF IsOSMid(src) /\ IsOSMid(dst)
                          THEN Some(compute_angle(src.val, mid.val, dst.val))
                          ELSE None]

\* The route without `route.insert(0, src_coords)`: it starts at the
\* coordinates of its first node.
route_of_from_first_node(src_coords, path, dst_coords) ==
    <<get_coordinates(path[1])>> \o [i \in 1..Len(path) |-> OSMid(path[i])]
        \o <<dst_coords, NoPoint>>

\* get_directions, lines 114-118: the source and destination points around the
\* path of nodes, and the None that marks the end.
route_of(src_coords, path, dst_coords) ==
    <<src_coords>> \o [i \in 1..Len(path) |-> OSMid(path[i])]
        \o <<dst_coords, NoPoint>>

\* get_directions, lines 122-127: one leg per window of three entries.
legs_of(route) ==
    [i \in 1..(Len(route) - 2) |->
        compute_leg_of_the_route(route[i], route[i + 1], route[i + 2])]

\* The test of the post-processing step with >= for >.
skips_last_node_or_equal(penult_leg) ==
    LET penult_dist == haversine(penult_leg.src, penult_leg.dst)
        last_dist == haversine(penult_leg.mid, penult_leg.dst)
    IN  penult_dist >= last_dist

\* get_directions, lines 139-142: the test of the post-processing step, on the
\* penultimate leg.
skips_last_node(penult_leg) ==
    LET penult_dist == haversine(penult_leg.src, penult_leg.dst)
        last_dist == haversine(penult_leg.mid, penult_leg.dst)
    IN  penult_dist > last_dist

\* skip_last_node without `directions.pop()`: the last leg stays.
skip_last_node_no_pop(directions) ==
    LET n == Len(directions)
        p == directions[n - 1]
        q == [p EXCEPT !.mid = p.dst, !.dst = NoPoint,
                       !.length = Some(haversine(p.src, p.dst))]
    IN  [i \in 1..n |-> IF i = n - 1 THEN q ELSE directions[i]]

\* skip_last_node without `directions[-2]['mid'] = directions[-2]['dst']`: the
\* penultimate leg still ends at the last node.
skip_last_node_keeps_mid(directions) ==
    LET n == Len(directions)
        p == directions[n - 1]
        q == [p EXCEPT !.dst = NoPoint, !.length = Some(haversine(p.src, p.mid))]
    IN  [i \in 1..(n - 1) |-> IF i = n - 1 THEN q ELSE directions[i]]

\* skip_last_node whose new last leg starts at the node that is skipped.
skip_last_node_from_last_node(directions) ==
    LET n == Len(directions)
        p == directions[n - 1]
        q == [p EXCEPT !.src = p.mid, !.mid = p.dst, !.dst = NoPoint,
                       !.length = Some(haversine(p.mid, p.dst))]
    IN  [i \in 1..(n - 1) |-> IF i = n - 1 THEN q ELSE directions[i]]

\* skip_last_node without `directions[-2]['dst'] = None`.
skip_last_node_keeps_dst(directions) ==
    LET n == Len(directions)
        p == directions[n - 1]
        q == [p EXCEPT !.mid = p.dst, !.length = Some(haversine(p.src, p.dst))]
    IN  [i \in 1..(n - 1) |-> IF i = n - 1 THEN q ELSE directions[i]]

\* get_directions, lines 146-151: the penultimate leg goes to the destination
\* and the last leg is removed.
skip_last_node(directions) ==
    LET n == Len(directions)
        p == directions[n - 1]
        q == [p EXCEPT !.mid = p.dst, !.dst = NoPoint,
                       !.length = Some(haversine(p.src, p.dst))]
    IN  [i \in 1..(n - 1) |-> IF i = n - 1 THEN q ELSE directions[i]]

\* get_directions, lines 132-153: the post-processing step.
post_process(directions) ==
    IF Len(directions) >= 3 /\ skips_last_node(directions[Len(directions) - 1])
    THEN skip_last_node(directions)
    ELSE directions

\* Guide.get_directions, once the nearest edges and the shortest path are known.
get_directions(src_coords, path, dst_coords) ==
    post_process(legs_of(route_of(src_coords, path, dst_coords)))

(***************************************************************************)
(* The bot of src/main_bot.py.  context.user_data is one dictionary per    *)
(* user; a key that is not in the dictionary has the value None here.      *)
(* The handlers of one application run one after the other, so a handler   *)
(* is one step.  A call of a collaborator (the geocoder, the guide, the    *)
(* map renderer, the Telegram API) inside a try block may raise: `fault`   *)
(* names the call site that raises during a handler.  The sends of /start  *)
(* and /help and the send of an except clause are outside every try: when *)
(* one raises the handler ends with the state as it is, so they are taken  *)
(* to go through.                                                          *)
(***************************************************************************)
VARIABLES
    user_data,  \* user -> that user's context.user_data
    update,     \* the update handled last: handler, user, arguments, location
    outcome,    \* the branch the last handler took, and whether its body raised
    outbox,     \* the messages the last handler sent, in order
    call,       \* a call of a function of the guide: its arguments and result
    saved_graphs \* the directory saved_graphs: file name -> what the file holds

vars == <<user_data, update, outcome, outbox, call, saved_graphs>>

(***************************************************************************)
(* The graphs of src/graph.py.  Graph(place, network_type) loads the graph *)
(* from a pickle file of the directory saved_graphs, or downloads it and   *)
(* saves it there.  A file holds a graph, whole or cut short when the      *)
(* write did not come to its end; a graph is known by the query that       *)
(* downloaded it.                                                          *)
(***************************************************************************)
\* The arguments of Graph(place, network_type).
GraphPlaces == {"Barcelona, Spain", "barcelona, spain", "Girona, Spain", "Barcelona"}

NetworkTypes == {"walk", "drive", "bike"}

\* len(place.split(',')) == 2
has_city_and_country(place) == place # "Barcelona"

\* place.lower().replace(' ', '_').replace(',', '_')
place_file_stem(place) ==
    CASE place \in {"Barcelona, Spain", "barcelona, spain"} -> "barcelona__spain"
      [] place = "Girona, Spain" -> "girona__spain"
      [] OTHER -> "barcelona"

\* The file name without the network type.
pkl_filename_of_place(place, network_type) == place_file_stem(place) \o ".pkl"

\* Graph.__init__, lines 64-67: self.pkl_filename
pkl_filename(place, network_type) ==
    place_file_stem(place) \o "_" \o network_type \o ".pkl"

\* The files Graph can read and write.
PklFilenames ==
    {pkl_filename(place, network_type) :
        place \in {q \in GraphPlaces : has_city_and_country(q)},
        network_type \in {"walk", "drive"}}

\* The directory without a file.
NoSavedGraphs == [f \in PklFilenames |-> None]

\* Graph._download_graph: the graph of ox.graph_from_place for the query.
download_graph(place, network_type) ==
    [query |-> place, network_type |-> network_type]

\* What Graph(place, network_type) leaves: the files, self.graph, the exception
\* it raised and whether it called _download_graph.
Constructed(files, graph, raised, downloaded) ==
    [files |-> files, graph |-> graph, raised |-> raised, downloaded |-> downloaded]

\* Graph.__init__.  Fault "download" is ox.graph_from_place raising (line 93),
\* "save_open" the open of line 162 raising and "save_dump" pickle.dump raising
\* (line 163), after the file was created.  A file that was cut short is there
\* for open, and pickle.load raises on it an exception that is no
\* FileNotFoundError.
Graph(files, place, network_type, fault) ==
    IF network_type \notin {"walk", "drive"}
    THEN Constructed(files, None, "ValueError", FALSE)
    ELSE IF ~has_city_and_country(place)
    THEN Constructed(files, None, "ValueError", FALSE)
    ELSE LET f == pkl_filename(place, network_type)
             graph == download_graph(place, network_type)
         IN  IF files[f] # None
             THEN IF files[f][1].whole
                  THEN Constructed(files, Some(files[f][1].graph), "none", FALSE)
                  ELSE Constructed(files, None, "UnpicklingError", FALSE)
             ELSE IF fault = "download"
             THEN Constructed(files, None, "DownloadError", TRUE)
             ELSE IF fault = "save_open"
             THEN Constructed(files, Some(graph), "OSError", TRUE)
             ELSE IF fault = "save_dump"
             THEN Constructed([files EXCEPT ![f] = Some([whole |-> FALSE, graph |-> graph])],
                              Some(graph), "OSError", TRUE)
             ELSE Constructed([files EXCEPT ![f] = Some([whole |-> TRUE, graph |-> graph])],
                              Some(graph), "none", TRUE)

Users == {"alice", "bob"}

\* The user whose updates specification Spec follows.
Rider == "alice"

RouteKeys == <<"directions", "dst_name", "current_leg", "route_id">>

EmptyUserData ==
    [current_location |-> None, directions |-> None, dst_name |-> None,
     current_leg |-> None, route_id |-> None]

Msg(kind, val) == [kind |-> kind, val |-> val]

Result(data, sent, event, raised) ==
    [data |-> data, sent |-> sent, event |-> event, raised |-> raised]

\* A message sent from an except clause.
Notice(kind) == <<Msg(kind, << >>)>>

\* _is_moving_away_from_the_route with the two distances exchanged.
is_moving_away_exchanged(current_coords, last_coords, checkpoint) ==
    LET last_distance == haversine(last_coords, checkpoint)
        current_distance == haversine(current_coords, checkpoint)
    IN  last_distance > current_distance + 15

\* _is_moving_away_from_the_route without the margin.
is_moving_away_no_margin(current_coords, last_coords, checkpoint) ==
    LET last_distance == haversine(last_coords, checkpoint)
        current_distance == haversine(current_coords, checkpoint)
    IN  current_distance > last_distance

\* _is_moving_away_from_the_route
MovingAwayMargin == 15

is_moving_away_from_the_route(current_coords, last_coords, checkpoint) ==
    LET last_distance == haversine(last_coords, checkpoint)
        current_distance == haversine(current_coords, checkpoint)
    IN  current_distance > last_distance + MovingAwayMargin

\* _are_next_to_each_other with twice the margin.
are_next_to_each_other_wide(p1, p2) ==
    LET distance == haversine(p1, p2)
    IN  distance <= 30

\* _are_next_to_each_other
NextToMargin == 15

are_next_to_each_other(p1, p2) ==
    LET distance == haversine(p1, p2)
    IN  distance <= NextToMargin

\* _round5 that always rounds down.
round5_down(n) == (n \div 5) * 5

\* _round5, on a whole number of metres
round5(n) ==
    LET n5 == (n \div 5) * 5
    IN  IF n % 5 <= 2 THEN n5 ELSE n5 + 5

\* An angle of the route (whole degrees, or None) counted in half degrees, the
\* unit in which _get_turning_message is modelled.
half_degrees(angle) == IF angle = None THEN None ELSE Some(2 * angle[1])

\* _get_turning_message with <= for < at the three thresholds.
get_turning_message_inclusive(angle) ==
    IF angle = None THEN "TypeError"
    ELSE LET a == angle[1]
             dir == IF a < 0 THEN "left" ELSE "right"
         IN  IF Abs(a) <= 45 THEN "Go straight ahead"
             ELSE IF Abs(a) <= 135 THEN "Half-turn to the " \o dir
             ELSE IF Abs(a) <= 225 THEN "Turn to the " \o dir
             ELSE "Sharp turn to the " \o dir

\* _get_turning_message.  The angle is a float: it is counted in half degrees
\* here, so that 22.5, 67.5 and 112.5 are the whole numbers 45, 135 and 225.
\* abs(None) raises a TypeError before `angle is None` is looked at.
get_turning_message(angle) ==
    IF angle = None THEN "TypeError"
    ELSE LET a == angle[1]
             dir == IF a < 0 THEN "left" ELSE "right"
         IN  IF Abs(a) < 45 THEN "Go straight ahead"
             ELSE IF Abs(a) < 135 THEN "Half-turn to the " \o dir
             ELSE IF Abs(a) < 225 THEN "Turn to the " \o dir
             ELSE "Sharp turn to the " \o dir

\* _get_next_checkpoint_message: the fields of the text it builds from
\* user_data['directions'][user_data['current_leg']].
get_next_checkpoint_message(d) ==
    LET current_leg == d.current_leg[1]
        current_route_leg == d.directions[1][current_leg + 1]
        src == current_route_leg.src
        mid == current_route_leg.mid
        distance == IF current_route_leg.length = None
                    THEN haversine(src, mid)
                    ELSE current_route_leg.length[1]
        far == current_route_leg.dst # NoPoint
    IN  Msg("next_checkpoint",
            [reached |-> current_leg,
             at |-> src,
             next |-> current_leg + 1,
             goto |-> mid,
             street_name |-> current_route_leg.next_name,
             distance |-> round5(distance),
             destination_close |-> ~far,
             through |-> IF far THEN Some(current_route_leg.current_name) ELSE None,
             turn |-> IF /\ far
                         /\ current_route_leg.angle # None
                         /\ 2 * Abs(current_route_leg.angle[1]) > 45
                      THEN Some(get_turning_message(half_degrees(current_route_leg.angle)))
                      ELSE None])

\* The deletion that leaves 'directions' in the dictionary.
del_keys_keeps_directions(d, keys) ==
    [data |-> [k \in DOMAIN d |->
                  IF k # "directions" /\ (\E i \in 1..Len(keys) : keys[i] = k)
                  THEN None ELSE d[k]],
     ok |-> TRUE]

\* `del user_data[k]` for the keys of `keys` in order, up to the first key that
\* is not in the dictionary (a KeyError): the dictionary left, and whether all
\* the keys were there.
RECURSIVE del_keys(_, _)
del_keys(d, keys) ==
    IF keys = << >> THEN [data |-> d, ok |-> TRUE]
    ELSE IF d[Head(keys)] = None THEN [data |-> d, ok |-> FALSE]
    ELSE del_keys([d EXCEPT ![Head(keys)] = None], Tail(keys))

\* The reset of start that clears the whole dictionary.
reset_all_user_data(d) == [k \in DOMAIN d |-> None]

\* start, lines 189-191: every route key that is in the dictionary is deleted.
reset_user_data(d) ==
    [k \in DOMAIN d |->
        IF \E i \in 1..Len(RouteKeys) : RouteKeys[i] = k THEN None ELSE d[k]]

\* start
start(d) ==
    Result(reset_user_data(d), <<Msg("welcome", << >>)>>, "Start", FALSE)

\* help_
help_(d) ==
    Result(d, <<Msg("help", << >>)>>, "Help", FALSE)

\* where whose except clause resets the user data as start does.
where_resets(d, fault) ==
    IF d.current_location = None \/ fault \in {"reverse", "send"}
    THEN [data |-> [d EXCEPT !.directions = None, !.dst_name = None,
                             !.current_leg = None, !.route_id = None],
          sent |-> <<[kind |-> "where_unknown", val |-> << >>]>>,
          event |-> "Where", raised |-> TRUE]
    ELSE [data |-> d,
          sent |-> <<[kind |-> "you_are_here", val |-> <<d.current_location[1]>>]>>,
          event |-> "Where", raised |-> FALSE]

\* where; fault "reverse" is line 248 and "send" line 256.
where(d, fault) ==
    IF d.current_location = None \/ fault \in {"reverse", "send"}
    THEN Result(d, Notice("where_unknown"), "Where", TRUE)
    ELSE Result(d, <<Msg("you_are_here", <<d.current_location[1]>>)>>, "Where", FALSE)

\* cancel without `del context.user_data['directions']`.
cancel_keeps_directions(d, fault) ==
    LET deleted == del_keys(d, Tail(RouteKeys))
    IN  IF deleted.ok /\ fault # "send"
        THEN [data |-> deleted.data,
              sent |-> <<[kind |-> "route_canceled", val |-> << >>]>>,
              event |-> "Cancelled", raised |-> FALSE]
        ELSE [data |-> deleted.data,
              sent |-> <<[kind |-> "no_programmed_route", val |-> << >>]>>,
              event |-> IF deleted.ok THEN "Cancelled" ELSE "NoRouteToCancel",
              raised |-> TRUE]

\* cancel; fault "send" is line 293, and the bare except answers it too.
cancel(d, fault) ==
    LET deleted == del_keys(d, RouteKeys)
    IN  IF deleted.ok /\ fault # "send"
        THEN Result(deleted.data, <<Msg("route_canceled", << >>)>>, "Cancelled", FALSE)
        ELSE Result(deleted.data, Notice("no_programmed_route"),
                    IF deleted.ok THEN "Cancelled" ELSE "NoRouteToCancel", TRUE)

\* ' '.join(context.args)
RECURSIVE join(_)
join(args) ==
    IF Len(args) = 1 THEN args[1] ELSE args[1] \o " " \o join(Tail(args))

\* datetime.now().strftime("%H%M%S"): the name of the route's images.
route_id_now == "HHMMSS"

\* go that forgets the route of a user who asks for another one.
go_forgets_route(d, args, dst_coords, path, fault) ==
    IF args = << >>
    THEN [data |-> d, sent |-> <<[kind |-> "insert_destination", val |-> << >>]>>,
          event |-> "EmptyInputDestinationError", raised |-> TRUE]
    ELSE IF d.directions # None
    THEN [data |-> [d EXCEPT !.directions = None, !.dst_name = None,
                             !.current_leg = None, !.route_id = None],
          sent |-> <<[kind |-> "already_following", val |-> << >>]>>,
          event |-> "AlreadyHasRouteError", raised |-> TRUE]
    ELSE IF d.current_location = None
    THEN [data |-> d, sent |-> <<[kind |-> "share_location", val |-> << >>]>>,
          event |-> "NoLocationFoundError", raised |-> TRUE]
    ELSE
        LET current_coords == d.current_location[1]
            d1 == [d EXCEPT !.dst_name = <<"destination">>]
            directions == get_directions(current_coords, path, dst_coords)
            d2 == [d1 EXCEPT !.directions = Some(directions),
                             !.route_id = <<"HHMMSS">>]
            d3 == [d2 EXCEPT !.current_leg = Some(0)]
            first_leg == directions[1]
            photo == [kind |-> "route_image", val |-> <<0>>]
            first == [kind |-> "first_checkpoint",
                      val |-> [at |-> first_leg.src, goto |-> first_leg.mid,
                               street_name |-> first_leg.next_name]]
            not_reachable == <<[kind |-> "not_reachable", val |-> << >>]>>
        IN  IF fault = "resolve"
            THEN [data |-> d1, sent |-> not_reachable,
                  event |-> "RouteFailed", raised |-> TRUE]
            ELSE IF fault = "photo"
            THEN [data |-> d2, sent |-> not_reachable,
                  event |-> "RouteFailed", raised |-> TRUE]
            ELSE IF fault = "send"
            THEN [data |-> d3, sent |-> <<photo>> \o not_reachable,
                  event |-> "RouteCreated", raised |-> TRUE]
            ELSE [data |-> d3, sent |-> <<photo, first>>,
                  event |-> "RouteCreated", raised |-> FALSE]

\* go.  dst_coords is what the geocoder answers and path what the guide finds
\* between the nodes nearest to the two points; fault "resolve" is lines 329-336
\* (GUIDE.city, the geocoder or GUIDE.get_directions raises), "photo" lines
\* 343-348 and "send" line 362.
go(d, args, dst_coords, path, fault) ==
    IF args = << >>
    THEN Result(d, Notice("insert_destination"), "EmptyInputDestinationError", TRUE)
    ELSE IF d.directions # None
    THEN Result(d, Notice("already_following"), "AlreadyHasRouteError", TRUE)
    ELSE IF d.current_location = None
    THEN Result(d, Notice("share_location"), "NoLocationFoundError", TRUE)
    ELSE
        LET current_coords == d.current_location[1]
            d1 == [d EXCEPT !.dst_name = Some(join(args))]
            directions == get_directions(current_coords, path, dst_coords)
            d2 == [d1 EXCEPT !.directions = Some(directions),
                             !.route_id = Some(route_id_now)]
            d3 == [d2 EXCEPT !.current_leg = Some(0)]
            first_leg == directions[1]
            photo == Msg("route_image", <<0>>)
            first == Msg("first_checkpoint",
                         [at |-> first_leg.src, goto |-> first_leg.mid,
                          street_name |-> first_leg.next_name])
            not_reachable == Notice("not_reachable")
        IN  IF fault = "resolve"
            THEN Result(d1, not_reachable, "RouteFailed", TRUE)
            ELSE IF fault = "photo"
            THEN Result(d2, not_reachable, "RouteFailed", TRUE)
            ELSE IF fault = "send"
            THEN Result(d3, <<photo>> \o not_reachable, "RouteCreated", TRUE)
            ELSE Result(d3, <<photo, first>>, "RouteCreated", FALSE)

\* The step counter advanced by two.
advance_twice(current_leg) == current_leg + 2

\* The step counter left where it is.
advance_stays(current_leg) == current_leg

\* process_user_location, line 516: the step counter advances.
advance(current_leg) == current_leg + 1

\* The decision of process_user_location without the test of line 467: the
\* last checkpoint is reached as any other.
guidance_event_never_completes(directions, i, last_location, current_loc) ==
    LET checkpoint == directions[i + 1].mid
    IN  IF is_moving_away_from_the_route(current_loc, last_location, checkpoint)
        THEN "OffRouteWarning"
        ELSE IF are_next_to_each_other(current_loc, checkpoint)
        THEN "CheckpointReached"
        ELSE "NoOp"

\* process_user_location, lines 447-467 and 497: what the new location means
\* for the user on leg i of the route.
guidance_event(directions, i, last_location, current_loc) ==
    LET checkpoint == directions[i + 1].mid
    IN  IF is_moving_away_from_the_route(current_loc, last_location, checkpoint)
        THEN "OffRouteWarning"
        ELSE IF are_next_to_each_other(current_loc, checkpoint)
        THEN IF i + 1 = Len(directions) THEN "RouteCompleted" ELSE "CheckpointReached"
        ELSE "NoOp"

\* process_user_location, lines 437-526: the user has a location and a route.
\* Fault "send_warning" is line 459, "photo_final" lines 468-475, "send_final"
\* line 488, "send_next" line 503, "send_turn" line 511 and "photo_next" lines
\* 518-525.
follow_route(d, last_location, current_loc, fault) ==
    LET directions == d.directions[1]
        i == d.current_leg[1]
        gps == Notice("gps_problem")
        event == guidance_event(directions, i, last_location, current_loc)
    IN  IF event = "OffRouteWarning"
        THEN IF fault = "send_warning"
             THEN Result(d, gps, event, TRUE)
             ELSE Result(d, <<Msg("moving_away", << >>)>>, event, FALSE)
        ELSE IF event = "RouteCompleted"
        THEN LET photo == Msg("route_image", <<i + 1>>)
                 final == Msg("congratulations", <<d.dst_name>>)
                 deleted == del_keys(d, RouteKeys)
             IN  IF fault = "photo_final" \/ d.route_id = None
                 THEN Result(d, gps, event, TRUE)
                 ELSE IF fault = "send_final" \/ d.dst_name = None
                 THEN Result(d, <<photo>> \o gps, event, TRUE)
                 ELSE IF ~deleted.ok
                 THEN Result(deleted.data, <<photo, final>> \o gps, event, TRUE)
                 ELSE Result(deleted.data, <<photo, final>>, event, FALSE)
        ELSE IF event = "CheckpointReached"
        THEN LET message == get_next_checkpoint_message(d)
                 turn == IF directions[i + 1].angle # None
                         THEN <<Msg("turn",
                                    <<get_turning_message(
                                        half_degrees(directions[i + 1].angle))>>)>>
                         ELSE << >>
                 leg_id == advance(i)
                 d2 == [d EXCEPT !.current_leg = Some(leg_id)]
                 photo == Msg("route_image", <<leg_id>>)
             IN  IF fault = "send_next"
                 THEN Result(d, gps, event, TRUE)
                 ELSE IF fault = "send_turn" /\ turn # << >>
                 THEN Result(d, <<message>> \o gps, event, TRUE)
                 ELSE IF fault = "photo_next" \/ d.route_id = None
                 THEN Result(d2, <<message>> \o turn \o gps, event, TRUE)
                 ELSE Result(d2, <<message>> \o turn \o <<photo>>, event, FALSE)
        ELSE Result(d, << >>, event, FALSE)

\* The location saved only when it is the first one (line 432 left out).
save_first_location(d, current_loc) ==
    IF d.current_location = None
    THEN [d EXCEPT !.current_location = Some(current_loc)]
    ELSE d

\* process_user_location, lines 417 and 432: the location is saved.
save_location(d, current_loc) == [d EXCEPT !.current_location = Some(current_loc)]

\* process_user_location that forgets the last location when the update
\* carries none.
process_user_location_forgets(d, location, fault) ==
    LET gps == <<[kind |-> "gps_problem", val |-> << >>]>>
    IN  IF location = None
        THEN [data |-> [d EXCEPT !.current_location = None], sent |-> gps,
              event |-> "NoLocation", raised |-> TRUE]
        ELSE LET current_loc == location[1]
                 d1 == [d EXCEPT !.current_location = Some(current_loc)]
             IN  IF d.current_location = None
                 THEN IF fault \in {"reverse", "send"}
                      THEN [data |-> d1, sent |-> gps,
                            event |-> "FirstLocation", raised |-> TRUE]
                      ELSE [data |-> d1,
                            sent |-> <<[kind |-> "great", val |-> << >>]>>,
                            event |-> "FirstLocation", raised |-> FALSE]
                 ELSE IF d1.directions = None
                 THEN [data |-> d1, sent |-> << >>,
                       event |-> "NoRoute", raised |-> FALSE]
                 ELSE [data |-> d1, sent |-> gps,
                       event |-> "KeyError", raised |-> TRUE]

\* process_user_location.  `location` is None when the update carries no
\* location (line 413 raises); fault "reverse" is lines 418-420 and "send"
\* line 426.
process_user_location(d, location, fault) ==
    LET gps == Notice("gps_problem")
    IN  IF location = None
        THEN Result(d, gps, "NoLocation", TRUE)
        ELSE LET current_loc == location[1]
                 d1 == save_location(d, current_loc)
             IN  IF d.current_location = None
                 THEN IF fault \in {"reverse", "send"}
                      THEN Result(d1, gps, "FirstLocation", TRUE)
                      ELSE Result(d1, <<Msg("great", << >>)>>, "FirstLocation", FALSE)
                 ELSE IF d1.directions = None
                 THEN Result(d1, << >>, "NoRoute", FALSE)
                 ELSE IF d1.current_leg = None
                 THEN Result(d1, gps, "KeyError", TRUE)
                 ELSE follow_route(d1, d.current_location[1], current_loc, fault)

(***************************************************************************)
(* The state machine: one action per handler of the application (lines     *)
(* 554-561), each on the update of one user.                               *)
(***************************************************************************)
Update(handler, user, args, location) ==
    [handler |-> handler, user |-> user, args |-> args, location |-> location]

NoCall == [fn |-> "none", args |-> << >>, path |-> None, ret |-> None]

\* One dictionary for all the users: the handler's result is everybody's.
Handled_for_all(u, upd, r) ==
    /\ user_data' = [v \in DOMAIN user_data |-> r.data]
    /\ update' = upd
    /\ outcome' = [event |-> r.event, raised |-> r.raised]
    /\ outbox' = r.sent
    /\ UNCHANGED <<call, saved_graphs>>

\* The handler's result becomes the state.
Handled(u, upd, r) ==
    /\ user_data' = [user_data EXCEPT ![u] = r.data]
    /\ update' = upd
    /\ outcome' = [event |-> r.event, raised |-> r.raised]
    /\ outbox' = r.sent
    /\ UNCHANGED <<call, saved_graphs>>

\* The destinations a user asks for.
Destinations == {<<"Sagrada", "Familia">>}

\* The collaborator calls of process_user_location that can raise on this
\* update, besides none.
LocationFaults(d, location) ==
    IF location = None THEN {"none"}
    ELSE IF d.current_location = None THEN {"none", "reverse", "send"}
    ELSE IF d.directions = None \/ d.current_leg = None THEN {"none"}
    ELSE LET event == guidance_event(d.directions[1], d.current_leg[1],
                                     d.current_location[1], location[1])
         IN  IF event = "OffRouteWarning" THEN {"none", "send_warning"}
             ELSE IF event = "RouteCompleted" THEN {"none", "photo_final", "send_final"}
             ELSE IF event = "CheckpointReached"
             THEN {"none", "send_next", "send_turn", "photo_next"}
             ELSE {"none"}

Start(u) ==
    Handled(u, Update("start", u, << >>, None), start(user_data[u]))

Help(u) ==
    Handled(u, Update("help", u, << >>, None), help_(user_data[u]))

Where(u) ==
    \E fault \in {"none", "reverse", "send"} :
        Handled(u, Update("where", u, << >>, None), where(user_data[u], fault))

Cancel(u) ==
    \E fault \in {"none", "send"} :
        Handled(u, Update("cancel", u, << >>, None), cancel(user_data[u], fault))

\* /go without a route to compute: the destination is missing, the user has a
\* route already, or no location is known.
GoRejected(u) ==
    \E args \in Destinations \cup {<< >>} :
        /\ \/ args = << >>
           \/ user_data[u].directions # None
           \/ user_data[u].current_location = None
        /\ Handled(u, Update("go", u, args, None),
                   go(user_data[u], args, NoPoint, << >>, "none"))

\* /go with a destination, from a user with a location and no route.
Go(u) ==
    \E args \in Destinations, dst_coords \in Coords,
       fault \in {"none", "resolve", "photo", "send"} :
        /\ user_data[u].directions = None
        /\ user_data[u].current_location # None
        /\ LET src_coords == user_data[u].current_location[1]
           IN  \E src_edge \in nearest_edges(src_coords),
                  dst_edge \in nearest_edges(dst_coords) :
                   \E path \in shortest_path(get_nearest_node(src_coords, src_edge),
                                             get_nearest_node(dst_coords, dst_edge)) :
                       Handled(u, Update("go", u, args, None),
                               go(user_data[u], args, dst_coords, path, fault))

Location(u) ==
    \E location \in {Some(c) : c \in Coords} \cup {None} :
        \E fault \in LocationFaults(user_data[u], location) :
            Handled(u, Update("location", u, << >>, location),
                    process_user_location(user_data[u], location, fault))

Init ==
    /\ user_data = [u \in Users |-> EmptyUserData]
    /\ update = Update("none", Rider, << >>, None)
    /\ outcome = [event |-> "None", raised |-> FALSE]
    /\ outbox = << >>
    /\ call = NoCall
    /\ saved_graphs = NoSavedGraphs

Next ==
    \/ Start(Rider)
    \/ Help(Rider)
    \/ Where(Rider)
    \/ Cancel(Rider)
    \/ GoRejected(Rider)
    \/ Go(Rider)
    \/ Location(Rider)

Spec == Init /\ [][Next]_vars

(***************************************************************************)
(* The guide on its own: Guide.get_directions applied to every pair of     *)
(* source and destination coordinates.                                     *)
(***************************************************************************)
InitGuide ==
    /\ user_data = [u \in Users |-> EmptyUserData]
    /\ update = Update("none", Rider, << >>, None)
    /\ outcome = [event |-> "None", raised |-> FALSE]
    /\ outbox = << >>
    /\ call \in {[fn |-> "get_directions", args |-> <<s, e>>, path |-> None, ret |-> None] :
                    s \in Coords, e \in Coords}
    /\ saved_graphs = NoSavedGraphs

\* Guide.get_directions, lines 99-153; `path` is what nx.shortest_path returned.
GetDirections ==
    /\ call.fn = "get_directions"
    /\ call.ret = None
    /\ LET src_coords == call.args[1]
           dst_coords == call.args[2]
       IN  \E src_edge \in nearest_edges(src_coords),
              dst_edge \in nearest_edges(dst_coords) :
               \E path \in shortest_path(get_nearest_node(src_coords, src_edge),
                                         get_nearest_node(dst_coords, dst_edge)) :
                   call' = [call EXCEPT
                              !.path = Some(path),
                              !.ret = Some(get_directions(src_coords, path, dst_coords))]
    /\ UNCHANGED <<user_data, update, outcome, outbox, saved_graphs>>

NextGuide == GetDirections

SpecGuide == InitGuide /\ [][NextGuide]_vars

(***************************************************************************)
(* The functions without state, each applied to every input of a bounded   *)
(* set: Guide._compute_angle on the two bearings it gets from              *)
(* ox.bearing.calculate_bearing, Guide._get_nearest_node on a point,       *)
(* _round5 on a whole number of metres and _get_turning_message on an      *)
(* angle counted in half degrees, or None.                                 *)
(***************************************************************************)
\* The bearings of the model are the whole numbers of degrees in [0, 360).
MaxBearing == 359

Bearings == {k % 360 : k \in 0..MaxBearing}

\* The largest number of metres that is rounded.
MaxMetres == 810

\* The angles from -180 to 180 degrees, in half degrees, and None.
Angles == {None} \cup {Some(h) : h \in -360..360}

FunctionCall(fn, args) == [fn |-> fn, args |-> args, path |-> None, ret |-> None]

InitFunctions ==
    /\ user_data = [u \in Users |-> EmptyUserData]
    /\ update = Update("none", Rider, << >>, None)
    /\ outcome = [event |-> "None", raised |-> FALSE]
    /\ outbox = << >>
    /\ \/ call \in {FunctionCall("compute_angle", <<angle1, angle2>>) :
                        angle1 \in Bearings, angle2 \in Bearings}
       \/ call \in {FunctionCall("get_nearest_node", <<coords>>) : coords \in Coords}
       \/ call \in {FunctionCall("round5", <<n>>) : n \in 0..MaxMetres}
       \/ call \in {FunctionCall("get_turning_message", <<angle>>) : angle \in Angles}
    /\ saved_graphs = NoSavedGraphs

\* Guide._compute_angle, lines 268-274, on the bearings of its two segments.
ComputeAngle ==
    /\ call.fn = "compute_angle"
    /\ call.ret = None
    /\ call' = [call EXCEPT !.ret = Some(normalize_angle(call.args[1], call.args[2]))]
    /\ UNCHANGED <<user_data, update, outcome, outbox, saved_graphs>>

\* Guide._get_nearest_node: the edge ox.distance.nearest_edges answered, and
\* the node returned.
GetNearestNode ==
    /\ call.fn = "get_nearest_node"
    /\ call.ret = None
    /\ \E nearest_edge \in nearest_edges(call.args[1]) :
           call' = [call EXCEPT
                      !.ret = Some([nearest_edge |-> nearest_edge,
                                    node |-> get_nearest_node(call.args[1], nearest_edge)])]
    /\ UNCHANGED <<user_data, update, outcome, outbox, saved_graphs>>

\* _round5
Round5 ==
    /\ call.fn = "round5"
    /\ call.ret = None
    /\ call' = [call EXCEPT !.ret = Some(round5(call.args[1]))]
    /\ UNCHANGED <<user_data, update, outcome, outbox, saved_graphs>>

\* _get_turning_message: the message returned, or the exception raised.
GetTurningMessage ==
    /\ call.fn = "get_turning_message"
    /\ call.ret = None
    /\ call' = [call EXCEPT !.ret = Some(get_turning_message(call.args[1]))]
    /\ UNCHANGED <<user_data, update, outcome, outbox, saved_graphs>>

NextFunctions ==
    \/ ComputeAngle
    \/ GetNearestNode
    \/ Round5
    \/ GetTurningMessage

SpecFunctions == InitFunctions /\ [][NextFunctions]_vars

(***************************************************************************)
(* The graphs of src/graph.py, constructed one after the other for any     *)
(* place and network type, from an empty directory saved_graphs.           *)
(***************************************************************************)
\* Graph(place, network_type)
NewGraph ==
    \E place \in GraphPlaces, network_type \in NetworkTypes,
       fault \in {"none", "download", "save_open", "save_dump"} :
        LET r == Graph(saved_graphs, place, network_type, fault)
        IN  /\ saved_graphs' = r.files
            /\ call' = [fn |-> "Graph", args |-> <<place, network_type>>,
                        path |-> None,
                        ret |-> Some([graph |-> r.graph, raised |-> r.raised,
                                      downloaded |-> r.downloaded])]
            /\ UNCHANGED <<user_data, update, outcome, outbox>>

NextGraph == NewGraph

SpecGraph == Init /\ [][NextGraph]_vars

(***************************************************************************)
(* Two users of the same application.  Each update is handled with the     *)
(* context.user_data of the user it comes from (update.effective_user),    *)
(* and the updates of the two users arrive in any order.  The users stand  *)
(* on the nodes of the graph and ask for routes to them, and no call       *)
(* raises but the ones of /cancel.                                         *)
(***************************************************************************)
\* The places where the two users are and where they go.
Places == {get_coordinates(n) : n \in GraphNodes}

\* /go with a destination, from a user with a location and no route.
GoTo(u) ==
    \E args \in Destinations, dst_coords \in Places :
        /\ user_data[u].directions = None
        /\ user_data[u].current_location # None
        /\ LET src_coords == user_data[u].current_location[1]
           IN  \E src_edge \in nearest_edges(src_coords),
                  dst_edge \in nearest_edges(dst_coords) :
                   \E path \in shortest_path(get_nearest_node(src_coords, src_edge),
                                             get_nearest_node(dst_coords, dst_edge)) :
                       Handled(u, Update("go", u, args, None),
                               go(user_data[u], args, dst_coords, path, "none"))

\* A location update from one of the places.
LocationAt(u) ==
    \E coords \in Places :
        Handled(u, Update("location", u, << >>, Some(coords)),
                process_user_location(user_data[u], Some(coords), "none"))

NextUsers ==
    \E u \in Users :
        \/ Start(u)
        \/ Cancel(u)
        \/ GoRejected(u)
        \/ GoTo(u)
        \/ LocationAt(u)

SpecUsers == Init /\ [][NextUsers]_vars

(***************************************************************************)
(* A user on the way: a first location, a /go, and then location updates   *)
(* only, with no call that raises.  The user comes within the margin of    *)
(* the current checkpoint again and again: a location update from there    *)
(* is not put off for ever.                                                *)
(***************************************************************************)
\* The user of u is on a route and `coords` are next to its checkpoint.
is_at_checkpoint(d, coords) ==
    /\ d.directions # None
    /\ d.current_leg # None
    /\ are_next_to_each_other(coords, d.directions[1][d.current_leg[1] + 1].mid)

\* /go to any destination, with every call going through.
Depart(u) ==
    \E args \in Destinations, dst_coords \in Coords :
        /\ user_data[u].directions = None
        /\ user_data[u].current_location # None
        /\ LET src_coords == user_data[u].current_location[1]
           IN  \E src_edge \in nearest_edges(src_coords),
                  dst_edge \in nearest_edges(dst_coords) :
                   \E path \in shortest_path(get_nearest_node(src_coords, src_edge),
                                             get_nearest_node(dst_coords, dst_edge)) :
                       Handled(u, Update("go", u, args, None),
                               go(user_data[u], args, dst_coords, path, "none"))

\* A location update from next to the checkpoint of the current leg.
Arrive(u) ==
    \E coords \in Coords :
        /\ is_at_checkpoint(user_data[u], coords)
        /\ Handled(u, Update("location", u, << >>, Some(coords)),
                   process_user_location(user_data[u], Some(coords), "none"))

\* A location update from anywhere else.
Stray(u) ==
    \E coords \in Coords :
        /\ ~is_at_checkpoint(user_data[u], coords)
        /\ Handled(u, Update("location", u, << >>, Some(coords)),
                   process_user_location(user_data[u], Some(coords), "none"))

NextJourney ==
    \/ Depart(Rider)
    \/ Arrive(Rider)
    \/ Stray(Rider)

SpecJourney == Init /\ [][NextJourney]_vars /\ WF_vars(Arrive(Rider))

(***************************************************************************)
(* A user whose route has just come to its end: the route was cancelled,   *)
(* or the last checkpoint was reached and the congratulations were sent.   *)
(* The user's location is known and the four route keys are gone.  From    *)
(* there the user sends any command and location update, as in Spec.       *)
(***************************************************************************)
\* The legs a route can have: two at least, and one more than the nodes of the
\* graph at most.
RouteLengths == 2..(Cardinality(GraphNodes) + 1)

InitEnded ==
    /\ \E coords \in Coords :
          /\ user_data = [u \in Users |->
                            IF u = Rider
                            THEN [EmptyUserData EXCEPT !.current_location = Some(coords)]
                            ELSE EmptyUserData]
          /\ \/ /\ update = Update("cancel", Rider, << >>, None)
                /\ outcome = [event |-> "Cancelled", raised |-> FALSE]
                /\ outbox = <<Msg("route_canceled", << >>)>>
             \/ \E args \in Destinations, n \in RouteLengths :
                   /\ update = Update("location", Rider, << >>, Some(coords))
                   /\ outcome = [event |-> "RouteCompleted", raised |-> FALSE]
                   /\ outbox = <<Msg("route_image", <<n>>),
                                 Msg("congratulations", <<Some(join(args))>>)>>
    /\ call = NoCall
    /\ saved_graphs = NoSavedGraphs

SpecAfterEnd == InitEnded /\ [][Next]_vars

(***************************************************************************)
(* The properties.                                                         *)
(***************************************************************************)
\* MARGIN of the specification: 15 metres.
MARGIN == 15

\* The user has a session: the four route keys are in the dictionary.
Active(d) == \A i \in 1..Len(RouteKeys) : d[RouteKeys[i]] # None

\* None of the four route keys is in the dictionary.
Destroyed(d) == \A i \in 1..Len(RouteKeys) : d[RouteKeys[i]] = None

\* The checkpoint of the current leg of a session.
Checkpoint(d) == d.directions[1][d.current_leg[1] + 1].mid

\* This step handles a location update of user u that carries a location.
LocationStep(u) ==
    /\ update'.handler = "location"
    /\ update'.user = u
    /\ update'.location # None

GuidanceEvents == {"CheckpointReached", "OffRouteWarning", "RouteCompleted"}

\* C1: over the location updates of a session current_leg never decreases, and
\* one location update increases it by at most 1.
C1_LegIndexMonotone ==
    [][\A u \in Users :
        (/\ update'.handler = "location"
         /\ update'.user = u
         /\ user_data[u].current_leg # None
         /\ user_data'[u].current_leg # None)
        => LET i == user_data[u].current_leg[1]
           IN  user_data'[u].current_leg[1] \in {i, i + 1}]_vars

\* C1's case: a session that has advanced twice.
C1_Witness ==
    /\ update.handler = "location"
    /\ outcome.event = "CheckpointReached"
    /\ user_data[Rider].current_leg = Some(2)

\* C2: a location update within MARGIN of the current checkpoint completes the
\* route and destroys the session when the leg is the last one, and otherwise
\* reaches the checkpoint and increments current_leg by exactly 1.
C2_ArrivalCompletesOrAdvances ==
    [][\A u \in Users :
        (/\ LocationStep(u)
         /\ Active(user_data[u])
         /\ haversine(update'.location[1], Checkpoint(user_data[u])) <= MARGIN)
        => LET i == user_data[u].current_leg[1]
           IN  IF i + 1 = Len(user_data[u].directions[1])
               THEN /\ outcome'.event = "RouteCompleted"
                    /\ Destroyed(user_data'[u])
               ELSE /\ outcome'.event = "CheckpointReached"
                    /\ user_data'[u].current_leg = Some(i + 1)]_vars

\* C3: a location farther from the checkpoint than the previous one by more
\* than MARGIN is an off-route warning, and leaves the route and current_leg
\* as they are.
C3_OffRouteLeavesSession ==
    [][\A u \in Users :
        (/\ LocationStep(u)
         /\ Active(user_data[u])
         /\ haversine(update'.location[1], Checkpoint(user_data[u]))
              > haversine(user_data[u].current_location[1], Checkpoint(user_data[u]))
                  + MARGIN)
        => /\ outcome'.event = "OffRouteWarning"
           /\ user_data'[u].directions = user_data[u].directions
           /\ user_data'[u].current_leg = user_data[u].current_leg]_vars

\* C3's case: the warning was sent to a user who still has the session.
C3_Witness ==
    /\ update.handler = "location"
    /\ outcome = [event |-> "OffRouteWarning", raised |-> FALSE]
    /\ Len(outbox) = 1
    /\ outbox[1].kind = "moving_away"
    /\ Active(user_data[Rider])

\* C4: a location within MARGIN of the checkpoint is an arrival (checkpoint
\* reached or route completed) and never an off-route warning, whatever the
\* previous location was.
C4_ArrivalTakesPrecedence ==
    [][\A u \in Users :
        (/\ LocationStep(u)
         /\ Active(user_data[u])
         /\ haversine(update'.location[1], Checkpoint(user_data[u])) <= MARGIN)
        => outcome'.event \in {"CheckpointReached", "RouteCompleted"}]_vars

\* C4's case: a checkpoint reached from exactly MARGIN metres away.
C4_Witness ==
    /\ update.handler = "location"
    /\ outcome.event = "CheckpointReached"
    /\ ~outcome.raised
    /\ LET d == user_data[Rider]
       IN  haversine(update.location[1], d.directions[1][d.current_leg[1]].mid) = MARGIN

\* C5: when a checkpoint that is not the last is reached, the guidance sent
\* (checkpoint number, place, next checkpoint, street, rounded distance, turn)
\* describes the new current leg, route[current_leg] after the increment.
C5_GuidanceDescribesNewLeg ==
    (/\ update.handler = "location"
     /\ outcome = [event |-> "CheckpointReached", raised |-> FALSE])
    => LET d == user_data[update.user]
           m == outbox[1].val
       IN  /\ outbox[1].kind = "next_checkpoint"
           /\ m = get_next_checkpoint_message(d).val
           /\ m.reached = d.current_leg[1]

\* C6: after a location update that carries a location, current_location is
\* that location, whatever the update led to.
C6_LocationAlwaysSaved ==
    \A u \in Users :
        (/\ update.handler = "location"
         /\ update.user = u
         /\ update.location # None)
        => user_data[u].current_location = update.location

\* C6's case: the location of an update whose handler raised is saved too.
C6_Witness ==
    /\ update.handler = "location"
    /\ outcome = [event |-> "RouteCompleted", raised |-> TRUE]
    /\ user_data[Rider].current_location = update.location
    /\ Active(user_data[Rider])

\* C7 as stated: the route is removed only by a completed route or by /cancel.
C7_RemovedOnlyByCompletionOrCancel ==
    [][\A u \in Users :
        (user_data[u].directions # None /\ user_data'[u].directions = None)
        => \/ update'.handler = "cancel"
           \/ update'.handler = "location" /\ outcome'.event = "RouteCompleted"]_vars

\* C7, amended: the route is removed only by a completed route, by /cancel or
\* by /start.
C7_RemovedOnlyByCompletionCancelOrStart ==
    [][\A u \in Users :
        (user_data[u].directions # None /\ user_data'[u].directions = None)
        => \/ update'.handler \in {"cancel", "start"}
           \/ update'.handler = "location" /\ outcome'.event = "RouteCompleted"]_vars

\* C7's case: a route removed because it was completed.
C7_Witness ==
    /\ update.handler = "location"
    /\ outcome = [event |-> "RouteCompleted", raised |-> FALSE]
    /\ user_data[Rider].directions = None

\* This step handles a /go that passes the three checks of lines 318-323.
GoAccepted(u) ==
    /\ update'.handler = "go"
    /\ update'.user = u
    /\ outcome'.event \in {"RouteCreated", "RouteFailed"}

\* C8: /cancel on a session destroys it, and from then on no location update
\* produces a guidance event until a /go is accepted: the four keys are gone
\* after the /cancel, without a route no step but an accepted /go brings one,
\* and a location update of a user without a route is no guidance event.
C8_CancelEndsGuidance ==
    [][\A u \in Users :
        /\ (update'.handler = "cancel" /\ update'.user = u /\ Active(user_data[u]))
           => Destroyed(user_data'[u])
        /\ (user_data[u].directions = None /\ ~GoAccepted(u))
           => user_data'[u].directions = None
        /\ (user_data[u].directions = None /\ update'.handler = "location"
               /\ update'.user = u)
           => outcome'.event \notin GuidanceEvents]_vars

\* C8's case: a session was cancelled.
C8_Witness ==
    /\ update.handler = "cancel"
    /\ outcome.event = "Cancelled"
    /\ Destroyed(user_data[Rider])
    /\ user_data[Rider].current_location # None

\* The last-mile simplification of the specification triggers on the legs
\* built: there are at least 3, and for the second-to-last leg P the distance
\* from P.from to P.to exceeds the distance from P.checkpoint to P.to.
Triggers(built) ==
    /\ Len(built) >= 3
    /\ LET P == built[Len(built) - 1]
       IN  Abs(P.src.val - P.dst.val) > Abs(P.mid.val - P.dst.val)

\* The legs get_directions built before the simplification, from its call.
Built(c) == legs_of(route_of(c.args[1], c.path[1], c.args[2]))

\* C9: get_directions returns len(path) + 1 legs when the last-mile
\* simplification does not trigger and len(path) legs when it does.
C9_NumberOfLegs ==
    (call.fn = "get_directions" /\ call.ret # None)
    => Len(call.ret[1]) = IF Triggers(Built(call))
                          THEN Len(call.path[1])
                          ELSE Len(call.path[1]) + 1

\* C9's case: a path of three nodes whose last node is skipped.
C9_Witness ==
    /\ call.fn = "get_directions"
    /\ call.ret # None
    /\ Len(call.path[1]) = 3
    /\ Triggers(Built(call))
    /\ Len(call.ret[1]) = 3

\* C10: the first leg of the route returned starts at the source coordinates
\* and the checkpoint of its last leg is the destination coordinates.
C10_EndToEnd ==
    (call.fn = "get_directions" /\ call.ret # None)
    => LET directions == call.ret[1]
       IN  /\ directions[1].src = call.args[1]
           /\ directions[Len(directions)].mid = call.args[2]

\* C10's case: a simplified route whose destination is not a node of the graph.
C10_Witness ==
    /\ call.fn = "get_directions"
    /\ call.ret # None
    /\ Triggers(Built(call))
    /\ \A n \in GraphNodes : get_coordinates(n) # call.args[2]
    /\ call.ret[1][Len(call.ret[1])].mid = call.args[2]

\* A call of get_directions has returned.
Returned == call.fn = "get_directions" /\ call.ret # None

C12_AngleOnlyBetweenNodes ==
    Returned
    => LET route == route_of(call.args[1], call.path[1], call.args[2])
           ret == call.ret[1]
       IN  /\ \A i \in 1..Len(ret) :
                 ret[i].angle # None => IsOSMid(route[i]) /\ IsOSMid(route[i + 2])
           /\ ret[1].angle = None
           /\ ret[Len(ret)].angle = None

\* C12's case: a simplified route with an angle on a leg in the middle.
C12_Witness ==
    /\ Returned
    /\ Triggers(Built(call))
    /\ \E i \in 1..Len(call.ret[1]) : call.ret[1][i].angle # None
    /\ call.ret[1][Len(call.ret[1])].angle = None

\* Scenario A: the path has two nodes and the simplification does not trigger.
ScenarioA == Returned /\ Len(call.path[1]) = 2 /\ ~Triggers(Built(call))

\* The three legs of scenario A but for the angle of the second: from S to N1
\* without an angle, from N1 to N2, and the terminal leg from N2 to E.
ScenarioALegs ==
    LET ret == call.ret[1]
        N1 == get_coordinates(call.path[1][1])
        N2 == get_coordinates(call.path[1][2])
    IN  /\ Len(ret) = 3
        /\ ret[1].src = call.args[1] /\ ret[1].mid = N1 /\ ret[1].angle = None
        /\ ret[2].src = N1 /\ ret[2].mid = N2
        /\ ret[3].src = N2 /\ ret[3].mid = call.args[2]
        /\ ret[3].dst = NoPoint /\ ret[3].angle = None

\* C13 as stated: in scenario A the second leg, from N1 to N2, has an angle.
C13_ScenarioASecondLegHasAngle ==
    ScenarioA => ScenarioALegs /\ call.ret[1][2].angle # None

\* C13, amended: in scenario A no leg has an angle; the second leg leads to the
\* destination point, which is not a graph node.
C13_ScenarioANoAngle ==
    ScenarioA => ScenarioALegs /\ call.ret[1][2].angle = None

\* C13's case: scenario A, with a destination that is not on a node.
C13_Witness ==
    /\ ScenarioA
    /\ Len(call.ret[1]) = 3
    /\ call.ret[1][2].dst = call.args[2]
    /\ \A n \in GraphNodes : get_coordinates(n) # call.args[2]

\* _compute_angle has returned for two bearings.
AngleReturned == call.fn = "compute_angle" /\ call.ret # None

\* C14 as stated: for every two bearings in [0, 360) the angle returned is in
\* (-180, 180].
C14_AngleInHalfOpenInterval ==
    AngleReturned => -180 < call.ret[1] /\ call.ret[1] <= 180

\* C14, amended: for every two bearings in [0, 360) the angle returned is in
\* [-180, 180]; it is -180 exactly when bearing2 - bearing1 is 180 and 180
\* exactly when bearing2 - bearing1 is -180.
C14_AngleInClosedInterval ==
    AngleReturned
    => LET raw == call.args[2] - call.args[1]
       IN  /\ -180 <= call.ret[1] /\ call.ret[1] <= 180
           /\ call.ret[1] = -180 <=> raw = 180
           /\ call.ret[1] = 180 <=> raw = -180

\* C14's case: the second bearing is the reverse of the first.
C14_Witness ==
    /\ AngleReturned
    /\ call.args[2] - call.args[1] = 180
    /\ call.ret[1] = -180

\* C15: _get_nearest_node returns an endpoint of the nearest edge (u, v): the
\* one strictly nearer to the point, and u when the two are as near; it never
\* returns v when du <= dv.
C15_NearestNodeIsNearerEndpoint ==
    (call.fn = "get_nearest_node" /\ call.ret # None)
    => LET u == call.ret[1].nearest_edge[1]
           v == call.ret[1].nearest_edge[2]
           du == Abs(call.args[1].val - NodeCoords[u])
           dv == Abs(call.args[1].val - NodeCoords[v])
           node == call.ret[1].node
       IN  /\ node \in {u, v}
           /\ du < dv => node = u
           /\ dv < du => node = v
           /\ du = dv => node = u
           /\ du <= dv => node # v

\* C15's case: a point as far from u as from v.
C15_Witness ==
    /\ call.fn = "get_nearest_node"
    /\ call.ret # None
    /\ LET u == call.ret[1].nearest_edge[1]
           v == call.ret[1].nearest_edge[2]
       IN  /\ Abs(call.args[1].val - NodeCoords[u]) = Abs(call.args[1].val - NodeCoords[v])
           /\ call.ret[1].node = u

\* C16: for a whole number n >= 0, round5(n) is a multiple of 5: n - (n mod 5)
\* when n mod 5 <= 2 and n - (n mod 5) + 5 otherwise, so at most 2 away from n;
\* 756 gives 755, 758 gives 760, 802 gives 800 and 803 gives 805.
C16_Round5 ==
    (call.fn = "round5" /\ call.ret # None)
    => LET n == call.args[1]
           r == call.ret[1]
       IN  /\ r % 5 = 0
           /\ r = IF n % 5 <= 2 THEN n - (n % 5) ELSE n - (n % 5) + 5
           /\ Abs(r - n) <= 2
           /\ n = 756 => r = 755
           /\ n = 758 => r = 760
           /\ n = 802 => r = 800
           /\ n = 803 => r = 805

\* C16's case: 758 is rounded up.
C16_Witness ==
    /\ call.fn = "round5"
    /\ call.args[1] = 758
    /\ call.ret = Some(760)

\* _get_turning_message has returned for an angle that is present.
TurningMessageOfAngle ==
    /\ call.fn = "get_turning_message"
    /\ call.args[1] # None
    /\ call.ret # None

\* C17: for an angle a in [-180, 180] the message is straight ahead when
\* |a| < 22.5, a half-turn when 22.5 <= |a| < 67.5, a turn when
\* 67.5 <= |a| < 112.5 and a sharp turn when |a| >= 112.5; but for straight
\* ahead it is to the left exactly when a < 0 and to the right otherwise.
\* (h is a in half degrees.)
C17_TurnCategories ==
    TurningMessageOfAngle
    => LET h == call.args[1][1]
           m == call.ret[1]
           side == IF h < 0 THEN "left" ELSE "right"
       IN  /\ Abs(h) < 45 => m = "Go straight ahead"
           /\ (45 <= Abs(h) /\ Abs(h) < 135) => m = "Half-turn to the " \o side
           /\ (135 <= Abs(h) /\ Abs(h) < 225) => m = "Turn to the " \o side
           /\ 225 <= Abs(h) => m = "Sharp turn to the " \o side

\* C17's case: -22.5 degrees is a half-turn to the left.
C17_Witness ==
    /\ TurningMessageOfAngle
    /\ call.args[1] = Some(-45)
    /\ call.ret = Some("Half-turn to the left")

\* C18: for an angle that is None the message is straight ahead, not an error.
C18_NoneIsStraightAhead ==
    (call.fn = "get_turning_message" /\ call.args[1] = None /\ call.ret # None)
    => call.ret[1] = "Go straight ahead"

\* C19: right after a /go has created a session, current_leg is 0 and
\* current_location is the `src` of the first leg of the route.
C19_SessionStartsAtFirstLeg ==
    [][\A u \in Users :
        (/\ update'.handler = "go"
         /\ update'.user = u
         /\ user_data[u].directions = None
         /\ Active(user_data'[u]))
        => /\ user_data'[u].current_leg = Some(0)
           /\ user_data'[u].current_location # None
           /\ user_data'[u].current_location[1] = user_data'[u].directions[1][1].src]_vars

\* C19's case: a session created away from the nodes of the graph.
C19_Witness ==
    /\ update.handler = "go"
    /\ outcome = [event |-> "RouteCreated", raised |-> FALSE]
    /\ Active(user_data[Rider])
    /\ user_data[Rider].current_leg = Some(0)
    /\ \A n \in GraphNodes :
          get_coordinates(n) # user_data[Rider].current_location[1]

\* C20: in every state with a session, 0 <= current_leg <= len(directions), and
\* current_leg is a valid index of directions (< len(directions)), so that the
\* read of directions[current_leg] by a location update is in range.
C20_LegIndexInRange ==
    \A u \in Users :
        (user_data[u].directions # None /\ user_data[u].current_leg # None)
        => LET i == user_data[u].current_leg[1]
               n == Len(user_data[u].directions[1])
           IN  /\ 0 <= i
               /\ i <= n
               /\ i < n

\* C20's case: the session is on the last leg of a route of four legs.
C20_Witness ==
    /\ update.handler = "location"
    /\ outcome.event = "CheckpointReached"
    /\ Active(user_data[Rider])
    /\ Len(user_data[Rider].directions[1]) = 4
    /\ user_data[Rider].current_leg = Some(3)

\* C21: a location update that carries no location changes nothing of the
\* user's data (current_location, directions, current_leg and the rest), and
\* the GPS-problem notice is the only message sent.
C21_NoLocationChangesNothing ==
    [][\A u \in Users :
        (/\ update'.handler = "location"
         /\ update'.user = u
         /\ update'.location = None)
        => /\ user_data'[u] = user_data[u]
           /\ Len(outbox') = 1
           /\ outbox'[1].kind = "gps_problem"]_vars

\* C21's case: an update without a location reached a user on a route.
C21_Witness ==
    /\ update.handler = "location"
    /\ update.location = None
    /\ outcome.event = "NoLocation"
    /\ Active(user_data[Rider])
    /\ user_data[Rider].current_leg = Some(1)

\* C22: /go is rejected with the user's data unchanged when it has no
\* destination, else when the user has a route already, else when no location
\* is known; a /go of a user with a route never replaces or resets the route.
C22_GoRejectedChangesNothing ==
    [][\A u \in Users :
        (/\ update'.handler = "go"
         /\ update'.user = u
         /\ \/ update'.args = << >>
            \/ user_data[u].directions # None
            \/ user_data[u].current_location = None)
        => /\ user_data'[u] = user_data[u]
           /\ outcome'.event =
                 IF update'.args = << >> THEN "EmptyInputDestinationError"
                 ELSE IF user_data[u].directions # None THEN "AlreadyHasRouteError"
                 ELSE "NoLocationFoundError"
           /\ Len(outbox') = 1
           /\ outbox'[1].kind =
                 IF update'.args = << >> THEN "insert_destination"
                 ELSE IF user_data[u].directions # None THEN "already_following"
                 ELSE "share_location"]_vars

\* C22's case: a /go with a destination from a user half way on a route.
C22_Witness ==
    /\ update.handler = "go"
    /\ update.args # << >>
    /\ outcome.event = "AlreadyHasRouteError"
    /\ Active(user_data[Rider])
    /\ user_data[Rider].current_leg = Some(1)

\* C23: /cancel and /start leave current_location as it was, whether the user
\* has a route or not.
C23_CancelAndStartKeepLocation ==
    [][\A u \in Users :
        (update'.handler \in {"cancel", "start"} /\ update'.user = u)
        => user_data'[u].current_location = user_data[u].current_location]_vars

\* C23's case: /start has removed the route of a user whose location is known.
C23_Witness ==
    /\ update.handler = "start"
    /\ Destroyed(user_data[Rider])
    /\ user_data[Rider].current_location # None

\* C25: after every sequence of commands and location updates the four route
\* keys of a user are all in the dictionary or all out of it.
C25_RouteKeysAllOrNone ==
    \A u \in Users : Active(user_data[u]) \/ Destroyed(user_data[u])

\* C26: in the route returned, the `dst` of every leg but the last is the `mid`
\* of the next leg.
C26_ToIsNextCheckpoint ==
    Returned
    => LET ret == call.ret[1]
       IN  \A i \in 1..(Len(ret) - 1) : ret[i].dst = ret[i + 1].mid

\* C27: in the route returned, the `mid` of every leg but the last is the `src`
\* of the next leg.
C27_LegsAreChained ==
    Returned
    => LET ret == call.ret[1]
       IN  \A i \in 1..(Len(ret) - 1) : ret[i].mid = ret[i + 1].src

\* C27's case: a simplified route of three legs.
C27_Witness ==
    /\ Returned
    /\ Triggers(Built(call))
    /\ Len(call.ret[1]) = 3
    /\ call.ret[1][2].mid = call.ret[1][3].src

\* C28: in the route returned exactly one leg has `dst` None, and it is the
\* last: the leg of the 'destination is close' message is the leg whose
\* checkpoint completes the route (current_leg + 1 = len(directions)).
C28_OnlyLastLegHasNoDst ==
    Returned
    => LET ret == call.ret[1]
       IN  /\ Cardinality({i \in 1..Len(ret) : ret[i].dst = NoPoint}) = 1
           /\ \A i \in 1..Len(ret) : ret[i].dst = NoPoint <=> i = Len(ret)

\* C28's case: a simplified route, whose last leg was built with a `dst`.
C28_Witness ==
    /\ Returned
    /\ Triggers(Built(call))
    /\ Built(call)[Len(call.ret[1])].dst # NoPoint
    /\ call.ret[1][Len(call.ret[1])].dst = NoPoint

\* C30: a location update of a user on a route that is neither within MARGIN of
\* the checkpoint nor farther from it than the last location by more than
\* MARGIN sends no message and changes nothing but current_location.
C30_NoOpChangesOnlyLocation ==
    [][\A u \in Users :
        (/\ LocationStep(u)
         /\ Active(user_data[u])
         /\ haversine(update'.location[1], Checkpoint(user_data[u])) > MARGIN
         /\ haversine(update'.location[1], Checkpoint(user_data[u]))
              <= haversine(user_data[u].current_location[1], Checkpoint(user_data[u]))
                   + MARGIN)
        => /\ outcome'.event = "NoOp"
           /\ outbox' = << >>
           /\ user_data'[u] =
                 [user_data[u] EXCEPT !.current_location = update'.location]]_vars

\* C30's case: the user has moved on the way to the second checkpoint.
C30_Witness ==
    /\ update.handler = "location"
    /\ outcome = [event |-> "NoOp", raised |-> FALSE]
    /\ outbox = << >>
    /\ Active(user_data[Rider])
    /\ user_data[Rider].current_leg = Some(1)
    /\ user_data[Rider].current_location = update.location

\* C24: an update of one user changes nothing of the route, the current_leg
\* and the current_location of another user, in whatever order the updates of
\* the two users are handled.
C24_UsersAreIsolated ==
    [][\A u \in Users :
        update'.user # u
        => /\ user_data'[u].directions = user_data[u].directions
           /\ user_data'[u].current_leg = user_data[u].current_leg
           /\ user_data'[u].current_location = user_data[u].current_location]_vars

\* C24's case: a user has reached a checkpoint while another user is on another
\* leg of another route.
C24_Witness ==
    /\ update.handler = "location"
    /\ update.user = "bob"
    /\ outcome.event = "CheckpointReached"
    /\ Active(user_data["alice"])
    /\ Active(user_data["bob"])
    /\ user_data["alice"].directions # user_data["bob"].directions
    /\ user_data["alice"].current_leg = Some(2)
    /\ user_data["bob"].current_leg = Some(1)

\* C29: when no call raises, a session starts on leg 0, and every location
\* update within MARGIN of the checkpoint of the current leg moves it on by one
\* leg, or completes the route and ends the session from the last leg: after
\* as many such updates as the route has legs the route is completed.  And a
\* user on a route who comes within MARGIN of each checkpoint in turn gets the
\* route completed in the end.
C29_ArrivalsCompleteTheRoute ==
    /\ [][\A u \in Users :
            /\ (update'.handler = "go" /\ update'.user = u
                    /\ user_data[u].directions = None
                    /\ user_data'[u].directions # None)
               => user_data'[u].current_leg = Some(0)
            /\ (/\ LocationStep(u)
                /\ Active(user_data[u])
                /\ haversine(update'.location[1], Checkpoint(user_data[u])) <= MARGIN)
               => LET i == user_data[u].current_leg[1]
                  IN  IF i + 1 = Len(user_data[u].directions[1])
                      THEN /\ outcome' = [event |-> "RouteCompleted", raised |-> FALSE]
                           /\ Destroyed(user_data'[u])
                      ELSE /\ outcome' = [event |-> "CheckpointReached", raised |-> FALSE]
                           /\ user_data'[u].current_leg = Some(i + 1)]_vars
    /\ Active(user_data[Rider])
          ~> (/\ update.handler = "location"
              /\ update.user = Rider
              /\ outcome = [event |-> "RouteCompleted", raised |-> FALSE])

\* C29's case: the congratulations were sent and the session is over.
C29_Witness ==
    /\ update.handler = "location"
    /\ outcome = [event |-> "RouteCompleted", raised |-> FALSE]
    /\ Len(outbox) = 2
    /\ outbox[2].kind = "congratulations"
    /\ Destroyed(user_data[Rider])

\* C32: for every two whole bearings in [0, 360) the angle returned is
\* congruent to bearing2 - bearing1 modulo 360, and is that difference itself,
\* or 360 more, or 360 less.
C32_AngleCongruentToDifference ==
    AngleReturned
    => LET raw == call.args[2] - call.args[1]
       IN  /\ (call.ret[1] - raw) % 360 = 0
           /\ call.ret[1] - raw \in {0, 360, -360}

\* C32's case: a difference of -270 degrees comes back as 90.
C32_Witness ==
    /\ AngleReturned
    /\ call.args[2] - call.args[1] = -270
    /\ call.ret[1] = 90

\* C31: when a session ends, by the route completed or by /cancel, the route is
\* gone and the location is known; that stays so until the user sends /go; and a
\* /go with a destination from such a user is not refused (not as 'already
\* following a route', nor otherwise): when no call raises it creates a session
\* with current_leg 0 whose route starts where the user is.
C31_NewRouteAfterTheEnd ==
    [][\A u \in Users :
        /\ (/\ Active(user_data[u])
            /\ update'.user = u
            /\ \/ update'.handler = "cancel"
               \/ /\ update'.handler = "location"
                  /\ outcome' = [event |-> "RouteCompleted", raised |-> FALSE])
           => /\ user_data'[u].directions = None
              /\ user_data'[u].current_location # None
        /\ (/\ user_data[u].directions = None
            /\ user_data[u].current_location # None
            /\ update'.handler # "go")
           => /\ user_data'[u].directions = None
              /\ user_data'[u].current_location # None
        /\ (/\ user_data[u].directions = None
            /\ user_data[u].current_location # None
            /\ update'.handler = "go"
            /\ update'.user = u
            /\ update'.args # << >>)
           => /\ outcome'.event \in {"RouteCreated", "RouteFailed"}
              /\ ~outcome'.raised
                 => /\ outcome'.event = "RouteCreated"
                    /\ Active(user_data'[u])
                    /\ user_data'[u].current_leg = Some(0)
                    /\ user_data'[u].directions[1][1].src
                          = user_data[u].current_location[1]]_vars

\* C31's case: a new session of a user whose route had come to its end.
C31_Witness ==
    /\ update.handler = "go"
    /\ update.args # << >>
    /\ outcome = [event |-> "RouteCreated", raised |-> FALSE]
    /\ Active(user_data[Rider])
    /\ user_data[Rider].current_leg = Some(0)
    /\ Len(outbox) = 2
    /\ outbox[2].kind = "first_checkpoint"

\* C33: Graph(place, network_type) with its pickle file there loads the graph
\* of the file and downloads nothing; with no file it downloads the graph and
\* saves it in the file; and a file once there is never written again.  So a
\* second construction for the same place and network type loads the graph the
\* first one saved, which is a graph of that place and network type, and does
\* not download.
C33_GraphLoadedOrDownloadedAndSaved ==
    [][(/\ call'.fn = "Graph"
        /\ call'.args[2] \in {"walk", "drive"}
        /\ has_city_and_country(call'.args[1]))
       => LET place == call'.args[1]
              network_type == call'.args[2]
              f == pkl_filename(place, network_type)
              made == call'.ret[1]
          IN  /\ \A g \in DOMAIN saved_graphs :
                    saved_graphs[g] # None => saved_graphs'[g] = saved_graphs[g]
              /\ saved_graphs[f] # None
                 => /\ ~made.downloaded
                    /\ made.raised = "none"
                       => /\ made.graph = Some(saved_graphs[f][1].graph)
                          /\ made.graph[1].network_type = network_type
                          /\ place_file_stem(made.graph[1].query) = place_file_stem(place)
              /\ (saved_graphs[f] = None /\ made.raised = "none")
                 => /\ made.downloaded
                    /\ made.graph = Some([query |-> place, network_type |-> network_type])
                    /\ saved_graphs'[f] = Some([whole |-> TRUE, graph |-> made.graph[1]])]_vars

\* C33's case: a graph loaded from the file that an earlier construction saved.
C33_Witness ==
    /\ call.fn = "Graph"
    /\ call.ret # None
    /\ call.ret[1].raised = "none"
    /\ ~call.ret[1].downloaded
    /\ LET f == pkl_filename(call.args[1], call.args[2])
       IN  /\ saved_graphs[f] # None
           /\ call.ret[1].graph = Some(saved_graphs[f][1].graph)

====
